---- MODULE Spec2Model ----
(***************************************************************************)
(* Model of godot_scene_loader: building a SceneWorld from a scene         *)
(* document (common/src/lib.rs) and instantiating it into the rapier       *)
(* physics containers (rapier_godot_scene_loader/src/lib.rs) or into bevy  *)
(* entities (bevy_godot_scene_loader/src).                                 *)
(*                                                                         *)
(* Representation choices.                                                 *)
(*  - f32 values are integers (all values used are exactly representable). *)
(*  - A Matrix4 is a sequence of 16 numbers in column-major order, as      *)
(*    Matrix4::from_column_slice reads them.                               *)
(*  - json is the document as read from the file; it is the input of the   *)
(*    load and never changes.  Its nested `children` vectors are           *)
(*    flattened: the document lists its entities in document order (a      *)
(*    parent before its children, a subtree before the next sibling) and   *)
(*    each entity names the index of its parent, 0 for a top-level entity. *)
(*  - A HashMap is a function over the set of its keys; << >> is the empty *)
(*    map.  A serde_json Value is its JSON text.                           *)
(*  - An Option is a record with a tag "Some" or "None"; a call that can   *)
(*    panic also has the tag "Panic".                                      *)
(*  - A handle of a RigidBodySet or ColliderSet is the index of the        *)
(*    element in insertion order.                                          *)
(*  - The recursion of spawn_entity is an explicit stack of frames; an     *)
(*    action is one call of spawn_entity together with the returns that    *)
(*    follow it, up to the next call.  The IslandManager is passed around  *)
(*    and never used; it is left out.                                      *)
(*  - The payload of an entity or resource is a record of the fields the   *)
(*    loaders read; the typed payload of the SceneWorld has the same       *)
(*    fields.  A String that is taken apart (a path) is the sequence of    *)
(*    its characters.                                                      *)
(***************************************************************************)
EXTENDS Integers, Sequences, FiniteSets, TLC

VARIABLES json, world, transform, pc, stack, bodies, colliders, entities, calls,
          commands, spawned_entities, arg, ret

\* the state of the bevy loader: the entities spawned through Commands and
\* the mapping load_scene_to_bevy returns
bevy_vars == <<commands, spawned_entities>>

\* the argument and the result of a function called on its own
call_vars == <<arg, ret>>

vars == <<json, world, transform, pc, stack, bodies, colliders, entities, calls,
          commands, spawned_entities, arg, ret>>

\* Number of entities of the documents explored.
MaxEntities == 3

\* Number of pieces a path explored is put together from.
MaxTokens == 3

\* Length of the longest concave polygon data explored.
MaxData == 6

(***************************************************************************)
(* Options and maps                                                        *)
(***************************************************************************)
None == [tag |-> "None"]

Some(v) == [tag |-> "Some", value |-> v]

Panic == [tag |-> "Panic"]

\* HashMap::get
Get(map, key) == IF key \in DOMAIN map THEN Some(map[key]) ELSE None

\* an insert that keeps the entry already under the key
Insert_keep_first(map, key, value) ==
    [k \in (DOMAIN map) \cup {key} |-> IF k \in DOMAIN map THEN map[k] ELSE value]

\* HashMap::insert: a later insert under the same key replaces the entry
Insert(map, key, value) ==
    [k \in (DOMAIN map) \cup {key} |-> IF k = key THEN value ELSE map[k]]

\* serde_json::Value::as_bool
as_bool(value) ==
    IF value = "true" THEN Some(TRUE)
    ELSE IF value = "false" THEN Some(FALSE)
    ELSE None

(***************************************************************************)
(* Matrices and NodeTransform                                              *)
(***************************************************************************)
Identity == <<1, 0, 0, 0,  0, 1, 0, 0,  0, 0, 1, 0,  0, 0, 0, 1>>

\* Matrix4 * Matrix4, column-major: element (r, c) is at index 4*c + r + 1
MatMul(a, b) ==
    LET E(r, c) == a[r + 1] * b[4 * c + 1] + a[r + 5] * b[4 * c + 2]
                     + a[r + 9] * b[4 * c + 3] + a[r + 13] * b[4 * c + 4]
    IN  <<E(0, 0), E(1, 0), E(2, 0), E(3, 0),  E(0, 1), E(1, 1), E(2, 1), E(3, 1),
          E(0, 2), E(1, 2), E(2, 2), E(3, 2),  E(0, 3), E(1, 3), E(2, 3), E(3, 3)>>

\* the product taken in the other order
AbsoluteTransform_swapped(parent_transform, relative_transform) ==
    MatMul(relative_transform, parent_transform)

\* spawn_entity: the absolute transform of an entity
AbsoluteTransform(parent_transform, relative_transform) ==
    MatMul(parent_transform, relative_transform)

\* Matrix4::from_column_slice: the matrix is filled from the slice and the
\* construction panics when the slice runs out before the 16 elements are
\* filled; elements after the 16th are not read.
from_column_slice(x) ==
    IF Len(x) < 16 THEN Panic ELSE Some(SubSeq(x, 1, 16))

\* NodeTransform::from_matrix: translation is the 4th column, rotation is
\* the rotation of the upper-left 3x3 block (kept as that block, column-major;
\* the inputs explored are rigid motions, for which the block is a rotation).
from_matrix(matrix) ==
    [matrix      |-> matrix,
     translation |-> <<matrix[13], matrix[14], matrix[15]>>,
     rotation    |-> <<matrix[1], matrix[2], matrix[3],
                       matrix[5], matrix[6], matrix[7],
                       matrix[9], matrix[10], matrix[11]>>]

\* impl From<&NodeTransform> for Isometry3
Isometry3(node_transform) ==
    [translation |-> node_transform.translation,
     rotation    |-> node_transform.rotation]

(***************************************************************************)
(* The documents explored                                                  *)
(***************************************************************************)
\* quarter turn about Z, then translation by (1, 0, 0)
TurnZ == <<0, 1, 0, 0,  -1, 0, 0, 0,  0, 0, 1, 0,  1, 0, 0, 1>>

\* translation by (0, 2, 0)
ShiftY == <<1, 0, 0, 0,  0, 1, 0, 0,  0, 0, 1, 0,  0, 2, 0, 1>>

\* a transform array one element short, and one with an element too many
ShortArray == SubSeq(ShiftY, 1, 15)

LongArray == TurnZ \o <<7>>

EntityJson(name, type, transf, shape, metadata) ==
    [name |-> name, entity_type |-> type,
     data |-> [transform |-> transf, shape |-> shape],
     metadata |-> metadata]

\* The documents explored are all the trees of MaxEntities entities drawn
\* from one of four families of entities.
\* Bodies, shapes and plain nodes, for the placement of bodies and colliders:
SceneTemplates ==
    { EntityJson("wall",   "StaticBody3D",     TurnZ,  "", << >>),
      EntityJson("crate",  "RigidBody3D",      ShiftY, "", << >>),
      EntityJson("player", "CharacterBody3D",  TurnZ,  "", ("sensor" :> "true")),
      EntityJson("wall",   "CollisionShape3D", ShiftY, "box",  << >>),
      EntityJson("zone",   "CollisionShape3D", TurnZ,  "ball", ("sensor" :> "true")),
      EntityJson("pivot",  "Node3D",           TurnZ,  "", << >>),
      EntityJson("model",  "",                 ShiftY, "", << >>) }

\* The shapes and the "sensor" entries of the metadata:
SensorTemplates ==
    { EntityJson("wall",   "StaticBody3D",     TurnZ,  "", << >>),
      EntityJson("pivot",  "Node3D",           ShiftY, "", << >>),
      EntityJson("fence",  "CollisionShape3D", ShiftY, "box",  << >>),
      EntityJson("zone",   "CollisionShape3D", TurnZ,  "ball", ("sensor" :> "true")),
      EntityJson("floor",  "CollisionShape3D", ShiftY, "poly", ("sensor" :> "false")),
      EntityJson("rail",   "CollisionShape3D", TurnZ,  "box",  ("sensor" :> "1")) }

\* Entities the physics loader does not instantiate: a shape resource that
\* is missing or is no collision shape, a variant it reads no transform of:
FaultyTemplates ==
    { EntityJson("wall",   "StaticBody3D",     TurnZ,  "", << >>),
      EntityJson("wall",   "CollisionShape3D", ShiftY, "box",  << >>),
      EntityJson("pivot",  "Node3D",           TurnZ,  "", << >>),
      EntityJson("model",  "",                 ShiftY, "", << >>),
      EntityJson("ghost",  "CollisionShape3D", TurnZ,  "gone", ("sensor" :> "true")),
      EntityJson("bad",    "CollisionShape3D", ShiftY, "cube", << >>),
      EntityJson("mesh",   "MeshInstance3D",   TurnZ,  "", << >>),
      EntityJson("cam",    "Camera3D",         ShiftY, "", << >>) }

\* Documents a parser may refuse: an unknown type, the empty type, a
\* transform array of the wrong length:
ParseTemplates ==
    { EntityJson("wall",   "StaticBody3D",     TurnZ,  "", << >>),
      EntityJson("wall",   "CollisionShape3D", ShiftY, "box",  << >>),
      EntityJson("model",  "",                 ShiftY, "", << >>),
      EntityJson("sun",    "Light3D",          TurnZ,  "", << >>),
      EntityJson("short",  "Node3D",           ShortArray, "", << >>),
      EntityJson("long",   "StaticBody3D",     LongArray,  "", << >>) }

ResourceJson(type, size, radius, data) ==
    [resource_type |-> type, data |-> [size |-> size, radius |-> radius, data |-> data]]

GoodResources ==
    [name \in {"box", "ball", "poly", "cube"} |->
        CASE name = "box"  -> ResourceJson("BoxShape3D", <<2, 4, 6>>, 0, << >>)
          [] name = "ball" -> ResourceJson("SphereShape3D", << >>, 3, << >>)
          [] name = "poly" -> ResourceJson("ConcavePolygonShape3D", << >>, 0,
                                           <<0, 0, 0,  1, 0, 0,  1, 1, 0>>)
          [] name = "cube" -> ResourceJson("BoxMesh", <<1, 1, 1>>, 0, << >>)]

ResourceTables ==
    { GoodResources,
      Insert(GoodResources, "fog", ResourceJson("FogMaterial", << >>, 0, << >>)) }

\* the parent of every entity precedes it, and the entities are in document
\* order: the parent of entity i is entity i-1 or one of its ancestors or 0
RECURSIVE AncestorsOrSelf(_, _)
AncestorsOrSelf(parent, i) ==
    IF i = 0 THEN {0} ELSE {i} \cup AncestorsOrSelf(parent, parent[i])

DocumentOrder(parent) ==
    \A i \in DOMAIN parent : parent[i] \in AncestorsOrSelf(parent, i - 1)

(***************************************************************************)
(* common: SceneWorldJson::to_world                                        *)
(***************************************************************************)
EntityTypes ==
    ("StaticBody3D" :> "StaticBody3D") @@ ("MeshInstance3D" :> "MeshInstance3D")
    @@ ("CollisionShape3D" :> "CollisionShape3D") @@ ("Camera3D" :> "Camera")
    @@ ("RigidBody3D" :> "RigidBody3D") @@ ("Node3D" :> "Node3D")
    @@ ("CharacterBody3D" :> "KinematicBody3D") @@ ("" :> "ModelScene")

\* an unknown type taken for a plain node
WorldEntityJson_parse_data_lenient(self) ==
    Some([variant |-> IF self.entity_type \in DOMAIN EntityTypes
                      THEN EntityTypes[self.entity_type] ELSE "Node3D"] @@ self.data)

\* WorldEntityJson::parse_data: the EntityData variant, or a panic
WorldEntityJson_parse_data(self) ==
    IF self.entity_type \in DOMAIN EntityTypes
    THEN Some([variant |-> EntityTypes[self.entity_type]] @@ self.data)
    ELSE Panic

ResourceTypes ==
    ("BoxMesh" :> "BoxMesh") @@ ("SphereMesh" :> "SphereMesh")
    @@ ("StandardMaterial3D" :> "StandardMaterial")
    @@ ("ConcavePolygonShape3D" :> "ConcavePolygonCollisionShape")
    @@ ("BoxShape3D" :> "BoxCollisionShape")
    @@ ("SphereShape3D" :> "SphereCollisionShape")
    @@ ("ArrayMesh" :> "ArrayMesh") @@ ("Texture2D" :> "Texture2D")
    @@ ("PackedScene" :> "PackedScene")

\* WorldResourceJson::parse_data: the ResourceData variant, or a panic
WorldResourceJson_parse_data(self) ==
    IF self.resource_type \in DOMAIN ResourceTypes
    THEN Some([variant |-> ResourceTypes[self.resource_type]] @@ self.data)
    ELSE Panic

\* the children in the reverse of the document order
RECURSIVE ChildrenFrom_reversed(_, _, _)
ChildrenFrom_reversed(doc, i, from) ==
    IF from > Len(doc) THEN << >>
    ELSE IF doc[from].parent = i THEN ChildrenFrom_reversed(doc, i, from + 1) \o <<from>>
    ELSE ChildrenFrom_reversed(doc, i, from + 1)

\* the children of entity i (0: the top-level entities), in document order
RECURSIVE ChildrenFrom(_, _, _)
ChildrenFrom(doc, i, from) ==
    IF from > Len(doc) THEN << >>
    ELSE IF doc[from].parent = i THEN <<from>> \o ChildrenFrom(doc, i, from + 1)
    ELSE ChildrenFrom(doc, i, from + 1)

\* WorldEntityJson::parse (the children are parsed with their parent)
WorldEntityJson_parse(doc, i) ==
    [name        |-> doc[i].name,
     entity_type |-> doc[i].entity_type,
     data        |-> WorldEntityJson_parse_data(doc[i]).value,
     metadata    |-> doc[i].metadata,
     children    |-> ChildrenFrom(doc, i, 1)]

\* SceneWorldJson::to_world: a panic of any entity or resource is a panic of
\* the whole conversion
to_world(self) ==
    IF \/ \E i \in DOMAIN self.entities :
             WorldEntityJson_parse_data(self.entities[i]) = Panic
       \/ \E k \in DOMAIN self.resources :
             WorldResourceJson_parse_data(self.resources[k]) = Panic
    THEN Panic
    ELSE Some([nodes     |-> [i \in DOMAIN self.entities |->
                                 WorldEntityJson_parse(self.entities, i)],
               entities  |-> ChildrenFrom(self.entities, 0, 1),
               resources |-> [k \in DOMAIN self.resources |->
                                 [data |-> WorldResourceJson_parse_data(self.resources[k]).value]]])

(***************************************************************************)
(* rapier loader: bodies and colliders                                     *)
(***************************************************************************)
PhysicsBody(handle, body_type) ==
    [tag |-> "PhysicsBody", handle |-> handle, body_type |-> body_type]

Collider(handle) == [tag |-> "Collider", handle |-> handle]

\* spawn_body: RigidBodyBuilder::new(body_type).position(transform).build(),
\* inserted in the body set; the handle of the new body is returned
spawn_body(body_type, node_transform, bodyset) ==
    LET rb == [body_type |-> body_type,
               position  |-> Isometry3(node_transform),
               colliders |-> << >>]
    IN  [handle |-> Len(bodyset) + 1, bodies |-> Append(bodyset, rb)]

\* the vertices of a concave polygon: the values three at a time; reading
\* data[i + 1] or data[i + 2] past the end panics
RECURSIVE Verts(_, _)
Verts(data, i) ==
    IF i > Len(data) THEN Some(<< >>)
    ELSE IF i + 2 > Len(data) THEN Panic
    ELSE LET rest == Verts(data, i + 3)
         IN  IF rest = Panic THEN Panic
             ELSE Some(<<<<data[i], data[i + 1], data[i + 2]>>>> \o rest.value)

\* parse_collider, the match on the resource variant: the shape of the
\* ColliderBuilder
ColliderShape(res) ==
    CASE res.data.variant = "BoxCollisionShape" ->
            IF Len(res.data.size) < 3 THEN Panic
            ELSE Some([type |-> "cuboid",
                       half_extents |-> <<res.data.size[1] \div 2,
                                          res.data.size[2] \div 2,
                                          res.data.size[3] \div 2>>])
      [] res.data.variant = "SphereCollisionShape" ->
            Some([type |-> "ball", radius |-> res.data.radius])
      [] res.data.variant = "ConcavePolygonCollisionShape" ->
            LET verts == Verts(res.data.data, 1)
            IN  IF verts = Panic THEN Panic
                ELSE Some([type |-> "polyline", vertices |-> verts.value])
      [] OTHER -> Panic

\* a boolean entry taken for a sensor whatever its value
SensorOf_present(metadata) ==
    LET sensor_value == Get(metadata, "sensor")
    IN  IF sensor_value.tag = "Some" /\ as_bool(sensor_value.value).tag = "Some"
        THEN Some(TRUE) ELSE None

\* parse_collider, the "sensor" entry of the metadata
SensorOf(metadata) ==
    LET sensor_value == Get(metadata, "sensor")
    IN  IF sensor_value.tag = "Some" THEN as_bool(sensor_value.value) ELSE None

\* the missing resource unwrapped
parse_collider_unwrap(resources, shape, parent_body_type, metadata) ==
    LET res == Get(resources, shape.shape)
    IN  IF res.tag = "None" THEN Panic
        ELSE LET collider_shape == ColliderShape(res.value)
                 sensor == SensorOf(metadata)
             IN  IF collider_shape = Panic THEN Panic
                 ELSE Some([shape    |-> collider_shape.value,
                            sensor   |-> IF sensor.tag = "Some" THEN sensor.value
                                         ELSE FALSE,
                            active_collision_types |->
                                IF sensor.tag = "Some" THEN "all" ELSE "default",
                            active_events |->
                                IF sensor.tag = "Some" THEN "all" ELSE "empty",
                            position |-> Isometry3(from_matrix(Identity)),
                            parent   |-> None])

\* parse_collider: None for a missing resource, a panic for a resource that
\* is no collision shape, else the collider built
parse_collider(resources, shape, parent_body_type, metadata) ==
    LET res == Get(resources, shape.shape)
    IN  IF res.tag = "None" THEN None
        ELSE LET collider_shape == ColliderShape(res.value)
                 sensor == SensorOf(metadata)
             IN  IF collider_shape = Panic THEN Panic
                 ELSE Some([shape    |-> collider_shape.value,
                            sensor   |-> IF sensor.tag = "Some" THEN sensor.value
                                         ELSE FALSE,
                            active_collision_types |->
                                IF sensor.tag = "Some" THEN "all" ELSE "default",
                            active_events |->
                                IF sensor.tag = "Some" THEN "all" ELSE "empty",
                            position |-> Isometry3(from_matrix(Identity)),
                            parent   |-> None])

\* the position is not applied
set_position_ignored(collider, pos) == collider

\* Collider::set_position
set_position(collider, pos) == [collider EXCEPT !.position = pos]

\* the collider attached to the first body of the set
insert_with_parent_first(colliderset, collider, parent_handle, bodyset) ==
    [handle    |-> Len(colliderset) + 1,
     colliders |-> Append(colliderset, [collider EXCEPT !.parent = Some(1)]),
     bodies    |-> [bodyset EXCEPT ![1].colliders = Append(@, Len(colliderset) + 1)]]

\* ColliderSet::insert_with_parent: the collider gets the body as its parent
\* and the body lists the collider
insert_with_parent(colliderset, collider, parent_handle, bodyset) ==
    [handle    |-> Len(colliderset) + 1,
     colliders |-> Append(colliderset, [collider EXCEPT !.parent = Some(parent_handle)]),
     bodies    |-> [bodyset EXCEPT ![parent_handle].colliders =
                        Append(@, Len(colliderset) + 1)]]

\* the attached collider placed at the absolute transform
spawn_collision_shape_absolute(entity, shape, absolute_transform, relative_transform, colliderset, bodyset, parent_data, resources) ==
    IF parent_data.tag = "Some" /\ parent_data.value.tag = "PhysicsBody"
    THEN LET parsed == parse_collider(resources, shape,
                                      Some(parent_data.value.body_type), entity.metadata)
         IN  IF parsed.tag # "Some"
             THEN [tag |-> parsed.tag, colliders |-> colliderset, bodies |-> bodyset]
             ELSE LET collider == set_position(parsed.value, Isometry3(absolute_transform))
                      ins == insert_with_parent(colliderset, collider,
                                                parent_data.value.handle, bodyset)
                  IN  [tag |-> "Some", value |-> Collider(ins.handle),
                       colliders |-> ins.colliders, bodies |-> ins.bodies]
    ELSE LET parsed == parse_collider(resources, shape, None, entity.metadata)
         IN  IF parsed.tag # "Some"
             THEN [tag |-> parsed.tag, colliders |-> colliderset, bodies |-> bodyset]
             ELSE LET collider == set_position(parsed.value, Isometry3(absolute_transform))
                  IN  [tag |-> "Some", value |-> Collider(Len(colliderset) + 1),
                       colliders |-> Append(colliderset, collider), bodies |-> bodyset]

\* spawn_collision_shape: the collider of a CollisionShape3D entity, attached
\* to the body of the parent when the parent produced one
spawn_collision_shape(entity, shape, absolute_transform, relative_transform, colliderset, bodyset, parent_data, resources) ==
    IF parent_data.tag = "Some" /\ parent_data.value.tag = "PhysicsBody"
    THEN LET parsed == parse_collider(resources, shape,
                                      Some(parent_data.value.body_type), entity.metadata)
         IN  IF parsed.tag # "Some"
             THEN [tag |-> parsed.tag, colliders |-> colliderset, bodies |-> bodyset]
             ELSE LET pos == from_matrix(relative_transform)
                      collider == set_position(parsed.value, Isometry3(pos))
                      ins == insert_with_parent(colliderset, collider,
                                                parent_data.value.handle, bodyset)
                  IN  [tag |-> "Some", value |-> Collider(ins.handle),
                       colliders |-> ins.colliders, bodies |-> ins.bodies]
    ELSE LET parsed == parse_collider(resources, shape, None, entity.metadata)
         IN  IF parsed.tag # "Some"
             THEN [tag |-> parsed.tag, colliders |-> colliderset, bodies |-> bodyset]
             ELSE LET collider == set_position(parsed.value, Isometry3(absolute_transform))
                  IN  [tag |-> "Some", value |-> Collider(Len(colliderset) + 1),
                       colliders |-> Append(colliderset, collider), bodies |-> bodyset]

\* the kinematic body made position-based
BodyTypeOf_position_based(entity) ==
    CASE entity.data.variant = "StaticBody3D"    -> Some("Fixed")
      [] entity.data.variant = "KinematicBody3D" -> Some("KinematicPositionBased")
      [] entity.data.variant = "RigidBody3D"     -> Some("Dynamic")
      [] OTHER -> None

\* spawn_entity_data, the first match: the RigidBodyType of a body entity
BodyTypeOf(entity) ==
    CASE entity.data.variant = "StaticBody3D"    -> Some("Fixed")
      [] entity.data.variant = "KinematicBody3D" -> Some("KinematicVelocityBased")
      [] entity.data.variant = "RigidBody3D"     -> Some("Dynamic")
      [] OTHER -> None

\* the results entry written for the bodies only
spawn_entity_data_bodies_only(entity, parent_data, absolute_transform, relative_transform, bodyset, colliderset, resources, results) ==
    LET body_type == BodyTypeOf(entity)
        made ==
            IF body_type.tag = "Some"
            THEN LET b == spawn_body(body_type.value, absolute_transform, bodyset)
                 IN  [tag |-> "Some", value |-> PhysicsBody(b.handle, body_type.value),
                      colliders |-> colliderset, bodies |-> b.bodies]
            ELSE IF entity.data.variant = "CollisionShape3D"
            THEN spawn_collision_shape(entity, entity.data, absolute_transform,
                                       relative_transform, colliderset, bodyset,
                                       parent_data, resources)
            ELSE [tag |-> "None", colliders |-> colliderset, bodies |-> bodyset]
    IN  IF made.tag = "Panic"
        THEN [data |-> Panic, bodies |-> bodyset, colliders |-> colliderset,
              entities |-> results]
        ELSE IF made.tag = "Some" /\ body_type.tag = "Some"
        THEN [data     |-> Some(made.value),
              bodies   |-> made.bodies,
              colliders |-> made.colliders,
              entities |-> Insert(results, entity.name,
                                  [entity_type |-> entity.entity_type,
                                   transform   |-> absolute_transform,
                                   metadata    |-> entity.metadata,
                                   data        |-> made.value])]
        ELSE [data |-> IF made.tag = "Some" THEN Some(made.value) ELSE None,
              bodies |-> made.bodies, colliders |-> made.colliders,
              entities |-> results]

\* the results entry given the relative transform
spawn_entity_data_relative(entity, parent_data, absolute_transform, relative_transform, bodyset, colliderset, resources, results) ==
    LET body_type == BodyTypeOf(entity)
        made ==
            IF body_type.tag = "Some"
            THEN LET b == spawn_body(body_type.value, absolute_transform, bodyset)
                 IN  [tag |-> "Some", value |-> PhysicsBody(b.handle, body_type.value),
                      colliders |-> colliderset, bodies |-> b.bodies]
            ELSE IF entity.data.variant = "CollisionShape3D"
            THEN spawn_collision_shape(entity, entity.data, absolute_transform,
                                       relative_transform, colliderset, bodyset,
                                       parent_data, resources)
            ELSE [tag |-> "None", colliders |-> colliderset, bodies |-> bodyset]
    IN  IF made.tag = "Panic"
        THEN [data |-> Panic, bodies |-> bodyset, colliders |-> colliderset,
              entities |-> results]
        ELSE IF made.tag = "Some"
        THEN [data     |-> Some(made.value),
              bodies   |-> made.bodies,
              colliders |-> made.colliders,
              entities |-> Insert(results, entity.name,
                                  [entity_type |-> entity.entity_type,
                                   transform   |-> from_matrix(relative_transform),
                                   metadata    |-> entity.metadata,
                                   data        |-> made.value])]
        ELSE [data |-> None, bodies |-> made.bodies, colliders |-> made.colliders,
              entities |-> results]

\* spawn_entity_data: the body or collider of the entity and, when there is
\* one, its entry in the results mapping under the name of the entity
spawn_entity_data(entity, parent_data, absolute_transform, relative_transform, bodyset, colliderset, resources, results) ==
    LET body_type == BodyTypeOf(entity)
        made ==
            IF body_type.tag = "Some"
            THEN LET b == spawn_body(body_type.value, absolute_transform, bodyset)
                 IN  [tag |-> "Some", value |-> PhysicsBody(b.handle, body_type.value),
                      colliders |-> colliderset, bodies |-> b.bodies]
            ELSE IF entity.data.variant = "CollisionShape3D"
            THEN spawn_collision_shape(entity, entity.data, absolute_transform,
                                       relative_transform, colliderset, bodyset,
                                       parent_data, resources)
            ELSE [tag |-> "None", colliders |-> colliderset, bodies |-> bodyset]
    IN  IF made.tag = "Panic"
        THEN [data |-> Panic, bodies |-> bodyset, colliders |-> colliderset,
              entities |-> results]
        ELSE IF made.tag = "Some"
        THEN [data     |-> Some(made.value),
              bodies   |-> made.bodies,
              colliders |-> made.colliders,
              entities |-> Insert(results, entity.name,
                                  [entity_type |-> entity.entity_type,
                                   transform   |-> absolute_transform,
                                   metadata    |-> entity.metadata,
                                   data        |-> made.value])]
        ELSE [data |-> None, bodies |-> made.bodies, colliders |-> made.colliders,
              entities |-> results]

\* an arm for every variant
get_entity_transform_every_variant(entity) ==
    LET data == IF entity.data.variant \in
                     {"StaticBody3D", "RigidBody3D", "KinematicBody3D",
                      "CollisionShape3D", "Node3D", "ModelScene",
                      "MeshInstance3D", "Camera"}
                THEN Some(entity.data.transform)
                ELSE None
    IN  IF data.tag = "Some" THEN from_column_slice(data.value) ELSE None

\* get_entity_transform: the transform array of the variants the match
\* names, as a matrix
get_entity_transform(entity) ==
    LET data == IF entity.data.variant \in
                     {"StaticBody3D", "RigidBody3D", "KinematicBody3D",
                      "CollisionShape3D", "Node3D", "ModelScene"}
                THEN Some(entity.data.transform)
                ELSE None
    IN  IF data.tag = "Some" THEN from_column_slice(data.value) ELSE None

(***************************************************************************)
(* The state machine                                                       *)
(***************************************************************************)
Documents(templates) ==
    { doc \in [1..MaxEntities -> [template : templates, parent : 0..(MaxEntities - 1)]] :
          DocumentOrder([i \in 1..MaxEntities |-> doc[i].parent]) }

\* the state before load_scene_world_file: a document read from the file
InitOver(templates, tables) ==
    /\ \E doc \in Documents(templates), table \in tables :
          json = [entities  |-> [i \in 1..MaxEntities |->
                                    [name        |-> doc[i].template.name,
                                     entity_type |-> doc[i].template.entity_type,
                                     data        |-> doc[i].template.data,
                                     metadata    |-> doc[i].template.metadata,
                                     parent      |-> doc[i].parent]],
                  resources |-> table]
    /\ world = None
    /\ transform = None
    /\ pc = "start"
    /\ stack = << >>
    /\ bodies = << >>
    /\ colliders = << >>
    /\ entities = << >>
    /\ calls = << >>
    /\ commands = << >>
    /\ spawned_entities = << >>
    /\ arg = None
    /\ ret = None

Init == InitOver(SceneTemplates, {GoodResources})

InitSensor == InitOver(SensorTemplates, {GoodResources})

InitFaulty == InitOver(FaultyTemplates, {GoodResources})

InitParse == InitOver(ParseTemplates, ResourceTables)

\* load_scene_world_file: the document is converted to the SceneWorld, or
\* the conversion panics
ToWorld ==
    /\ pc = "start"
    /\ LET w == to_world(json)
       IN  IF w = Panic
           THEN pc' = "panic" /\ UNCHANGED world
           ELSE pc' = "parsed" /\ world' = w
    /\ UNCHANGED <<json, transform, stack, bodies, colliders, entities, calls>>
    /\ UNCHANGED <<bevy_vars, call_vars>>

\* the root transforms a caller passes
RootTransforms == {None, Some(ShiftY)}

\* the frames of the calls that have returned are popped: a call returns
\* when its loop over the children is at its end
RECURSIVE Unwind(_)
Unwind(frames) ==
    IF frames # << >> /\ frames[Len(frames)].todo = << >>
    THEN Unwind(SubSeq(frames, 1, Len(frames) - 1))
    ELSE frames

\* load_world_to_rapier returns when its loop over the top-level entities
\* is at its end
Position(frames) == IF frames = << >> THEN "done" ELSE "loading"

\* load_world_to_rapier, up to the first call of spawn_entity: empty
\* containers, and the loop over the top-level entities, each called with
\* the root transform and no parent data
LoadWorldToRapier ==
    /\ pc = "parsed"
    /\ \E t \in RootTransforms :
          LET frames == Unwind(<<[entity    |-> 0,
                                  transform |-> IF t.tag = "Some" THEN t.value
                                                ELSE Identity,
                                  data      |-> None,
                                  todo      |-> world.value.entities]>>)
          IN  /\ transform' = t
              /\ stack' = frames
              /\ pc' = Position(frames)
    /\ bodies' = << >>
    /\ colliders' = << >>
    /\ entities' = << >>
    /\ UNCHANGED <<json, world, calls, bevy_vars, call_vars>>

Top == stack[Len(stack)]

\* the frame of the caller once the call for the next entity is made
Called(frame) == [frame EXCEPT !.todo = Tail(@)]

\* one call of spawn_entity, for the next entity of the innermost loop, up
\* to the next call of spawn_entity (the first child, or after the returns
\* the next entity of an enclosing loop) or to the return of
\* load_world_to_rapier
SpawnEntity ==
    /\ pc = "loading"
    /\ LET e == Head(Top.todo)
           entity == world.value.nodes[e]
           parent_transform == Top.transform
           parent_data == Top.data
           caller == [stack EXCEPT ![Len(stack)] = Called(@)]
           call == [entity |-> e, parent |-> Top.entity, parent_data |-> parent_data]
           relative_transform == get_entity_transform(entity)
       IN  CASE relative_transform = Panic ->
                  /\ pc' = "panic"
                  /\ calls' = Append(calls, call @@ [outcome |-> "panic"])
                  /\ UNCHANGED <<stack, bodies, colliders, entities>>
             [] relative_transform = None ->
                  /\ stack' = Unwind(caller)
                  /\ pc' = Position(Unwind(caller))
                  /\ calls' = Append(calls, call @@ [outcome |-> "skip", data |-> None])
                  /\ UNCHANGED <<bodies, colliders, entities>>
             [] OTHER ->
                  LET absolute_transform == AbsoluteTransform(parent_transform,
                                                             relative_transform.value)
                      node_transform == from_matrix(absolute_transform)
                      r == spawn_entity_data(entity, parent_data, node_transform,
                                             relative_transform.value, bodies, colliders,
                                             world.value.resources, entities)
                      frames == Unwind(Append(caller,
                                              [entity    |-> e,
                                               transform |-> absolute_transform,
                                               data      |-> r.data,
                                               todo      |-> entity.children]))
                  IN  IF r.data = Panic
                      THEN /\ pc' = "panic"
                           /\ calls' = Append(calls, call @@ [outcome |-> "panic"])
                           /\ UNCHANGED <<stack, bodies, colliders, entities>>
                      ELSE /\ stack' = frames
                           /\ pc' = Position(frames)
                           /\ bodies' = r.bodies
                           /\ colliders' = r.colliders
                           /\ entities' = r.entities
                           /\ calls' = Append(calls,
                                  call @@ [outcome  |-> "spawn",
                                           absolute |-> absolute_transform,
                                           data     |-> r.data])
    /\ UNCHANGED <<json, world, transform, bevy_vars, call_vars>>

Next == ToWorld \/ LoadWorldToRapier \/ SpawnEntity

Spec == Init /\ [][Next]_vars

SpecSensor == InitSensor /\ [][Next]_vars

SpecFaulty == InitFaulty /\ [][Next]_vars

SpecParse == InitParse /\ [][Next]_vars

(***************************************************************************)
(* bevy loader: load_scene_to_bevy                                         *)
(***************************************************************************)
ResPrefix == <<"r", "e", "s", ":", "/", "/">>

\* str::replace: the occurrences of `from`, found from left to right and not
\* overlapping, are each replaced by `to`
RECURSIVE replace(_, _, _)
replace(str, from, to) ==
    IF Len(str) < Len(from) THEN str
    ELSE IF SubSeq(str, 1, Len(from)) = from
    THEN to \o replace(SubSeq(str, Len(from) + 1, Len(str)), from, to)
    ELSE <<Head(str)>> \o replace(Tail(str), from, to)

\* strip_res_prefix
strip_res_prefix(str) == replace(str, ResPrefix, << >>)

\* serde_json::Value::as_str
as_str(value) == IF value.type = "String" THEN Some(value.value) ELSE None

\* Transform::from_matrix: translation, rotation (the upper-left block; the
\* inputs explored are rigid motions) and scale
Transform(m) ==
    [translation |-> <<m[13], m[14], m[15]>>,
     rotation    |-> <<m[1], m[2], m[3],  m[5], m[6], m[7],  m[9], m[10], m[11]>>,
     scale       |-> <<1, 1, 1>>]

\* vec_to_transform: the slice [0..16] panics on a shorter array
vec_to_transform(v) ==
    IF Len(v) < 16 THEN Panic ELSE Some(Transform(SubSeq(v, 1, 16)))

\* get_transform_from_data: every variant has an arm
get_transform_from_data(data) ==
    IF data.variant \in {"MeshInstance3D", "Node3D", "StaticBody3D", "RigidBody3D",
                         "KinematicBody3D", "CollisionShape3D", "ModelScene", "Camera"}
    THEN vec_to_transform(data.transform)
    ELSE None

\* Color::WHITE.into()
White == [type |-> "Material", color |-> <<1, 1, 1, 1>>]

\* get_material_from_resource
get_material_from_resource(resource) ==
    IF resource.data.variant = "StandardMaterial" THEN Some(resource.data) ELSE Panic

\* create_mesh_from_data, the match on the resource: the mesh and the name
\* of its material
MeshOf(resource) ==
    CASE resource.variant = "BoxMesh" ->
            IF Len(resource.size) < 3 THEN Panic
            ELSE Some([mesh |-> [type |-> "Mesh", shape |-> "Cuboid",
                                 size |-> SubSeq(resource.size, 1, 3)],
                       material |-> resource.material])
      [] resource.variant = "SphereMesh" ->
            Some([mesh |-> [type |-> "Mesh", shape |-> "Sphere",
                            radius |-> resource.radius],
                  material |-> resource.material])
      [] resource.variant = "ArrayMesh" ->
            Some([mesh |-> [type |-> "ArrayMesh",
                            handle |-> strip_res_prefix(resource.path)],
                  material |-> None])
      [] OTHER -> Panic

\* create_mesh_from_data, the material: the texture of the material, its
\* colour, or white
MaterialOf(mat, resources) ==
    LET material_data == Get(resources, mat)
    IN  IF material_data.tag = "None" THEN Panic
        ELSE LET material == get_material_from_resource(material_data.value)
             IN  IF material = Panic THEN Panic
                 ELSE IF material.value.albedo_texture.tag = "Some"
                 THEN LET res == Get(resources, material.value.albedo_texture.value)
                      IN  IF res.tag = "None" THEN Panic
                          ELSE IF res.value.data.variant = "Texture2D"
                          THEN Some([type |-> "Texture",
                                     handle |-> strip_res_prefix(res.value.data.path)])
                          ELSE Some(White)
                 ELSE IF Len(material.value.albedo_color) < 4 THEN Panic
                 ELSE Some([type |-> "Material",
                            color |-> SubSeq(material.value.albedo_color, 1, 4)])

\* create_mesh_from_data
create_mesh_from_data(resource, resources) ==
    LET m == MeshOf(resource)
    IN  IF m = Panic THEN Panic
        ELSE IF m.value.material.tag = "None"
        THEN Some([mesh |-> m.value.mesh, material |-> White])
        ELSE LET material_info == MaterialOf(m.value.material.value, resources)
             IN  IF material_info = Panic THEN Panic
                 ELSE Some([mesh |-> m.value.mesh, material |-> material_info.value])

\* create_mesh_from_resource
create_mesh_from_resource(mesh_name, resources) ==
    LET resource == Get(resources, mesh_name)
    IN  IF resource.tag = "None" THEN Panic
        ELSE create_mesh_from_data(resource.value.data, resources)

\* Commands::spawn: the new entity is the next one
spawn(cmds, bundle) ==
    [id |-> Some(Len(cmds) + 1), commands |-> Append(cmds, bundle @@ [children |-> << >>])]

\* spawn_components: the entity spawned for a WorldEntity, none for the
\* variants without components, or a panic
spawn_components(scene_world, entity, t, cmds) ==
    CASE entity.data.variant \in {"StaticBody3D", "RigidBody3D", "KinematicBody3D",
                                  "Node3D", "CollisionShape3D"} ->
            spawn(cmds, [bundle |-> "SpatialBundle", transform |-> t])
      [] entity.data.variant = "MeshInstance3D" ->
            LET mesh == create_mesh_from_resource(entity.data.mesh, scene_world.resources)
            IN  IF mesh = Panic THEN Panic
                ELSE spawn(cmds, [bundle     |-> "PbrBundle",
                                  mesh       |-> mesh.value.mesh,
                                  material   |-> mesh.value.material,
                                  visibility |-> IF entity.data.visible THEN "Visible"
                                                 ELSE "Hidden",
                                  transform  |-> t])
      [] entity.data.variant = "ModelScene" ->
            LET path == IF entity.data.type_name = "MODEL"
                        THEN as_str(entity.data.data) ELSE None
                resource == IF path.tag = "Some"
                            THEN Get(scene_world.resources, path.value) ELSE None
            IN  IF resource.tag = "Some" /\ resource.value.data.variant = "PackedScene"
                THEN spawn(cmds, [bundle |-> "SceneBundle",
                                  scene  |-> strip_res_prefix(resource.value.data.path)
                                                \o <<"#", "S", "c", "e", "n", "e", "0">>,
                                  transform |-> t])
                ELSE [id |-> None, commands |-> cmds]
      [] OTHER -> [id |-> None, commands |-> cmds]

\* The documents of the bevy loader: mesh instances whose mesh is a mesh
\* with a textured material, is missing, is no mesh, has a missing material
\* or a material that is none, a plain node and a model scene
MeshJson(name, transf, mesh, visible) ==
    [name |-> name, entity_type |-> "MeshInstance3D",
     data |-> [transform |-> transf, mesh |-> mesh, visible |-> visible],
     metadata |-> << >>]

SceneJson(name, transf, type_name, data) ==
    [name |-> name, entity_type |-> "",
     data |-> [transform |-> transf, type_name |-> type_name,
               data |-> [type |-> "String", value |-> data]],
     metadata |-> << >>]

BevyTemplates ==
    { EntityJson("node", "Node3D", TurnZ, "", << >>),
      MeshJson("good", ShiftY, "cube", TRUE),
      MeshJson("lost", TurnZ,  "gone", TRUE),
      MeshJson("odd",  ShiftY, "box",  FALSE),
      MeshJson("bare", TurnZ,  "ball", TRUE),
      MeshJson("dull", ShiftY, "slab", TRUE),
      SceneJson("model", TurnZ, "MODEL", "scene") }

BevyResources ==
    [name \in {"cube", "skin", "tex", "box", "ball", "slab", "scene"} |->
        CASE name = "cube"  -> [resource_type |-> "BoxMesh",
                                data |-> [size |-> <<1, 1, 1>>, material |-> Some("skin")]]
          [] name = "skin"  -> [resource_type |-> "StandardMaterial3D",
                                data |-> [albedo_color |-> <<1, 0, 0, 1>>,
                                          albedo_texture |-> Some("tex")]]
          [] name = "tex"   -> [resource_type |-> "Texture2D",
                                data |-> [path |-> ResPrefix \o <<"t">>]]
          [] name = "box"   -> [resource_type |-> "BoxShape3D",
                                data |-> [size |-> <<2, 4, 6>>]]
          [] name = "ball"  -> [resource_type |-> "SphereMesh",
                                data |-> [radius |-> 1, material |-> Some("paint")]]
          [] name = "slab"  -> [resource_type |-> "BoxMesh",
                                data |-> [size |-> <<2, 1, 2>>, material |-> Some("tex")]]
          [] name = "scene" -> [resource_type |-> "PackedScene",
                                data |-> [path |-> ResPrefix \o <<"m">>]]]

InitBevy == InitOver(BevyTemplates, {BevyResources})

\* the frames of the calls of spawn_entity that have returned are popped; a
\* call that returns its entity to a call of spawn_entity makes it a child
\* of the entity of that call
RECURSIVE ReturnToCaller(_, _)
ReturnToCaller(frames, cmds) ==
    IF frames # << >> /\ frames[Len(frames)].todo = << >>
    THEN LET returned == frames[Len(frames)]
             callers == SubSeq(frames, 1, Len(frames) - 1)
         IN  IF callers # << >> /\ callers[Len(callers)].entity # 0
             THEN ReturnToCaller(callers,
                      [cmds EXCEPT ![callers[Len(callers)].id].children =
                                       Append(@, returned.id)])
             ELSE ReturnToCaller(callers, cmds)
    ELSE [stack |-> frames, commands |-> cmds]

\* load_scene_to_bevy, up to the first call of spawn_entity
LoadSceneToBevy ==
    /\ pc = "parsed"
    /\ LET r == ReturnToCaller(<<[entity |-> 0, id |-> 0,
                                  todo |-> world.value.entities]>>, << >>)
       IN  /\ stack' = r.stack
           /\ commands' = r.commands
           /\ pc' = IF r.stack = << >> THEN "done" ELSE "spawning"
    /\ spawned_entities' = << >>
    /\ UNCHANGED <<json, world, transform, bodies, colliders, entities, calls, call_vars>>

\* one call of the bevy spawn_entity, up to the next call of it or to the
\* return of load_scene_to_bevy
SpawnEntityBevy ==
    /\ pc = "spawning"
    /\ LET e == Head(Top.todo)
           entity == world.value.nodes[e]
           caller == [stack EXCEPT ![Len(stack)] = Called(@)]
           call == [entity |-> e, parent |-> Top.entity]
           relative_transform == get_transform_from_data(entity.data)
           t == IF relative_transform.tag = "Some" THEN relative_transform.value
                ELSE Transform(Identity)
           spawned == IF relative_transform = Panic THEN Panic
                      ELSE spawn_components(world.value, entity, t, commands)
       IN  CASE spawned = Panic ->
                  /\ pc' = "panic"
                  /\ calls' = Append(calls, call @@ [outcome |-> "panic"])
                  /\ UNCHANGED <<stack, commands, spawned_entities>>
             [] spawned # Panic /\ spawned.id = None ->
                  LET r == ReturnToCaller(caller, commands)
                  IN  /\ stack' = r.stack
                      /\ commands' = r.commands
                      /\ pc' = IF r.stack = << >> THEN "done" ELSE "spawning"
                      /\ calls' = Append(calls, call @@ [outcome |-> "skip"])
                      /\ UNCHANGED spawned_entities
             [] OTHER ->
                  LET r == ReturnToCaller(
                               Append(caller, [entity |-> e, id |-> spawned.id.value,
                                               todo |-> entity.children]),
                               spawned.commands)
                  IN  /\ stack' = r.stack
                      /\ commands' = r.commands
                      /\ pc' = IF r.stack = << >> THEN "done" ELSE "spawning"
                      /\ spawned_entities' =
                             Insert(spawned_entities, entity.name,
                                    [id |-> spawned.id.value,
                                     entity_type |-> entity.entity_type])
                      /\ calls' = Append(calls, call @@ [outcome |-> "spawn",
                                                         id |-> spawned.id.value])
    /\ UNCHANGED <<json, world, transform, bodies, colliders, entities, call_vars>>

NextBevy == ToWorld \/ LoadSceneToBevy \/ SpawnEntityBevy

SpecBevy == InitBevy /\ [][NextBevy]_vars

(***************************************************************************)
(* Functions called on their own                                           *)
(***************************************************************************)
\* the state of a call outside a load: no document, empty containers
NoLoad ==
    /\ json = [entities |-> << >>, resources |-> << >>]
    /\ world = None
    /\ transform = None
    /\ pc = "start"
    /\ stack = << >>
    /\ bodies = << >>
    /\ colliders = << >>
    /\ entities = << >>
    /\ calls = << >>
    /\ commands = << >>
    /\ spawned_entities = << >>

\* The paths explored: up to MaxTokens pieces, each the prefix, a part of
\* it or another character, one after the other
Tokens ==
    { ResPrefix, <<"r", "e", "s", ":", "/">>, <<"e", "s", ":", "/", "/">>,
      <<"r">>, <<"/">>, <<"a">> }

RECURSIVE Flatten(_)
Flatten(pieces) ==
    IF pieces = << >> THEN << >> ELSE Head(pieces) \o Flatten(Tail(pieces))

Paths == { Flatten(pieces) : pieces \in UNION { [1..n -> Tokens] : n \in 0..MaxTokens } }

InitStrip == NoLoad /\ arg \in { Some(p) : p \in Paths } /\ ret = None

\* a call of strip_res_prefix: the argument is borrowed and a new String is
\* returned
StripResPrefix ==
    /\ pc = "start"
    /\ ret' = Some(strip_res_prefix(arg.value))
    /\ pc' = "done"
    /\ UNCHANGED <<json, world, transform, stack, bodies, colliders, entities, calls>>
    /\ UNCHANGED <<bevy_vars, arg>>

SpecStrip == InitStrip /\ [][StripResPrefix]_vars

\* The polygon data explored: every sequence of up to MaxData values
PolygonData == UNION { [1..n -> {0, 1}] : n \in 0..MaxData }

InitPolygon == NoLoad /\ arg \in { Some(d) : d \in PolygonData } /\ ret = None

\* a call of parse_collider for a shape whose resource is a concave polygon
\* of the data, with no parent body and no metadata
ParsePolygon ==
    /\ pc = "start"
    /\ LET resources == ("poly" :> [data |-> [variant |-> "ConcavePolygonCollisionShape",
                                              data    |-> arg.value]])
           r == parse_collider(resources, [shape |-> "poly"], None, << >>)
       IN  /\ ret' = r
           /\ pc' = IF r = Panic THEN "panic" ELSE "done"
    /\ UNCHANGED <<json, world, transform, stack, bodies, colliders, entities, calls>>
    /\ UNCHANGED <<bevy_vars, arg>>

SpecPolygon == InitPolygon /\ [][ParsePolygon]_vars

(***************************************************************************)
(* Vocabulary of the properties                                            *)
(***************************************************************************)
\* the entity at an index of the document, once the SceneWorld is built
Node(e) == world.value.nodes[e]

\* the parent of an entity in the SceneWorld, 0 for a top-level entity
ParentOf(e) ==
    IF \E p \in DOMAIN world.value.nodes :
           \E k \in DOMAIN Node(p).children : Node(p).children[k] = e
    THEN CHOOSE p \in DOMAIN world.value.nodes :
           \E k \in DOMAIN Node(p).children : Node(p).children[k] = e
    ELSE 0

\* the call of spawn_entity made for an entity
Visited == {calls[i].entity : i \in DOMAIN calls}

CallOf(e) == calls[CHOOSE i \in DOMAIN calls : calls[i].entity = e]

\* the call returned a body, a collider
ReturnedBody(c) ==
    c.outcome = "spawn" /\ c.data.tag = "Some" /\ c.data.value.tag = "PhysicsBody"

ReturnedCollider(c) ==
    c.outcome = "spawn" /\ c.data.tag = "Some" /\ c.data.value.tag = "Collider"

IsBodyEntity(e) ==
    Node(e).entity_type \in {"StaticBody3D", "RigidBody3D", "CharacterBody3D"}

IsShapeEntity(e) == Node(e).entity_type = "CollisionShape3D"

\* the shape resource of a CollisionShape3D entity is in the table and is a
\* box, sphere or concave polygon collision shape
ShapeResolves(e) ==
    /\ Node(e).data.shape \in DOMAIN world.value.resources
    /\ world.value.resources[Node(e).data.shape].data.variant \in
          {"BoxCollisionShape", "SphereCollisionShape", "ConcavePolygonCollisionShape"}

\* translation and rotation of a rigid motion given as a 4x4 matrix
PoseOf(m) ==
    [translation |-> <<m[13], m[14], m[15]>>,
     rotation    |-> <<m[1], m[2], m[3],  m[5], m[6], m[7],  m[9], m[10], m[11]>>]

\* the relative transform of an entity: the first 16 values of its array
RelativeOf(e) == SubSeq(Node(e).data.transform, 1, 16)

\* the root transform of the load: the one supplied, else the identity
Root == IF transform.tag = "Some" THEN transform.value ELSE Identity

\* root * relative(ancestor 1) * ... * relative(parent) * relative(e)
RECURSIVE AbsOf(_)
AbsOf(e) ==
    IF ParentOf(e) = 0 THEN MatMul(Root, RelativeOf(e))
    ELSE MatMul(AbsOf(ParentOf(e)), RelativeOf(e))

(***************************************************************************)
(* C1: a CollisionShape3D entity whose shape resolves and whose immediate  *)
(* parent produced a PhysicsBody gets a collider that is inserted with the *)
(* parent's body handle as its owning body and is positioned at the        *)
(* decomposition of its own parent-relative transform.                     *)
(***************************************************************************)
C1_AttachedToParentBody ==
    \A i \in DOMAIN calls :
        LET c == calls[i]
        IN  ( /\ IsShapeEntity(c.entity) /\ ShapeResolves(c.entity)
              /\ c.parent # 0 /\ ReturnedBody(CallOf(c.parent)) )
            => /\ ReturnedCollider(c)
               /\ c.data.value.handle \in DOMAIN colliders
               /\ LET collider == colliders[c.data.value.handle]
                      body == CallOf(c.parent).data.value.handle
                  IN  /\ collider.parent = Some(body)
                      /\ \E k \in DOMAIN bodies[body].colliders :
                            bodies[body].colliders[k] = c.data.value.handle
                      /\ collider.position = PoseOf(RelativeOf(c.entity))

\* an attached collider whose relative and absolute placements differ
C1_Witness ==
    \E i \in DOMAIN calls :
        /\ ReturnedCollider(calls[i])
        /\ calls[i].parent # 0 /\ ReturnedBody(CallOf(calls[i].parent))
        /\ colliders[calls[i].data.value.handle].parent.tag = "Some"
        /\ PoseOf(calls[i].absolute) # PoseOf(RelativeOf(calls[i].entity))

(***************************************************************************)
(* C2: a CollisionShape3D entity whose shape resolves and whose immediate  *)
(* parent produced no PhysicsBody (it is top-level, or its parent returned *)
(* a collider or nothing) gets a collider with no owning body, positioned  *)
(* at its absolute transform, also when a more distant ancestor is a body. *)
(***************************************************************************)
C2_FreeStandingCollider ==
    \A i \in DOMAIN calls :
        LET c == calls[i]
        IN  ( /\ IsShapeEntity(c.entity) /\ ShapeResolves(c.entity)
              /\ (c.parent = 0 \/ ~ReturnedBody(CallOf(c.parent))) )
            => /\ ReturnedCollider(c)
               /\ c.data.value.handle \in DOMAIN colliders
               /\ LET collider == colliders[c.data.value.handle]
                  IN  /\ collider.parent = None
                      /\ \A b \in DOMAIN bodies : \A k \in DOMAIN bodies[b].colliders :
                            bodies[b].colliders[k] # c.data.value.handle
                      /\ collider.position = PoseOf(AbsOf(c.entity))

\* a free-standing collider under a parent that is no body, below a
\* grandparent that is one, placed differently than its relative transform
C2_Witness ==
    \E i \in DOMAIN calls :
        /\ ReturnedCollider(calls[i])
        /\ calls[i].parent # 0
        /\ ~ReturnedBody(CallOf(calls[i].parent))
        /\ CallOf(calls[i].parent).parent # 0
        /\ ReturnedBody(CallOf(CallOf(calls[i].parent).parent))
        /\ colliders[calls[i].data.value.handle].parent = None
        /\ colliders[calls[i].data.value.handle].position
              # PoseOf(RelativeOf(calls[i].entity))

(***************************************************************************)
(* C3: the absolute transform of every visited entity is the root          *)
(* transform (the identity when none is supplied) multiplied on the right  *)
(* by the relative transforms of its ancestors, outermost first, and then  *)
(* by its own.                                                             *)
(***************************************************************************)
C3_AbsoluteTransform ==
    \A i \in DOMAIN calls :
        calls[i].outcome = "spawn" => calls[i].absolute = AbsOf(calls[i].entity)

\* an entity two levels down, under a supplied root transform, for which
\* the order of the product matters
C3_Witness ==
    \E i \in DOMAIN calls :
        /\ calls[i].outcome = "spawn"
        /\ transform.tag = "Some"
        /\ calls[i].parent # 0 /\ CallOf(calls[i].parent).parent # 0
        /\ calls[i].absolute
              # MatMul(RelativeOf(calls[i].entity), AbsOf(calls[i].parent))
        /\ \E j \in DOMAIN calls :
              j # i /\ calls[j].parent = 0 /\ calls[j].outcome = "spawn"

(***************************************************************************)
(* C4: every visited StaticBody3D, RigidBody3D and KinematicBody3D entity  *)
(* creates exactly one body, fixed, dynamic and velocity-based kinematic   *)
(* respectively, positioned at the absolute transform of the entity        *)
(* whatever its parent produced.                                           *)
(***************************************************************************)
ExpectedBodyType(e) ==
    CASE Node(e).entity_type = "StaticBody3D"    -> "Fixed"
      [] Node(e).entity_type = "RigidBody3D"     -> "Dynamic"
      [] Node(e).entity_type = "CharacterBody3D" -> "KinematicVelocityBased"

C4_OneBodyPerBodyEntity ==
    /\ \A i \in DOMAIN calls :
          LET c == calls[i]
          IN  IsBodyEntity(c.entity)
              => /\ ReturnedBody(c)
                 /\ c.data.value.body_type = ExpectedBodyType(c.entity)
                 /\ c.data.value.handle \in DOMAIN bodies
                 /\ bodies[c.data.value.handle].body_type = ExpectedBodyType(c.entity)
                 /\ bodies[c.data.value.handle].position = PoseOf(AbsOf(c.entity))
                 /\ \A j \in DOMAIN calls :
                       (j # i /\ ReturnedBody(calls[j]))
                       => calls[j].data.value.handle # c.data.value.handle
    /\ Len(bodies) = Cardinality({i \in DOMAIN calls : IsBodyEntity(calls[i].entity)})

\* a kinematic body below another body, placed differently than its
\* relative transform
C4_Witness ==
    \E i \in DOMAIN calls :
        /\ ReturnedBody(calls[i])
        /\ calls[i].data.value.body_type = "KinematicVelocityBased"
        /\ calls[i].parent # 0 /\ ReturnedBody(CallOf(calls[i].parent))
        /\ bodies[calls[i].data.value.handle].position
              # PoseOf(RelativeOf(calls[i].entity))

(***************************************************************************)
(* C5: an entity of a variant other than the three bodies and              *)
(* CollisionShape3D (Node3D, MeshInstance3D, ModelScene, Camera) creates   *)
(* no body and no collider, and the traversal continues into every one of  *)
(* its children, each with the composed absolute transform and a parent    *)
(* context that is no PhysicsBody.  Stated of the loads that return.       *)
(***************************************************************************)
C5_OtherVariantsContinue ==
    pc = "done"
    => \A i \in DOMAIN calls :
          LET c == calls[i]
          IN  Node(c.entity).entity_type \in {"Node3D", "MeshInstance3D", "", "Camera3D"}
              => /\ c.data = None
                 /\ \A k \in DOMAIN Node(c.entity).children :
                       LET child == Node(c.entity).children[k]
                       IN  /\ child \in Visited
                           /\ ~ReturnedBody([outcome |-> "spawn",
                                             data |-> CallOf(child).parent_data])
                           /\ CallOf(child).outcome = "spawn"
                              => CallOf(child).absolute = AbsOf(child)

(***************************************************************************)
(* C6: as claimed, a collider built for an entity whose metadata has a     *)
(* boolean "sensor" entry is a sensor that emits events, and one built for *)
(* an entity without the key is no sensor and has no active events.        *)
(***************************************************************************)
HasBooleanSensorEntry(e) ==
    "sensor" \in DOMAIN Node(e).metadata /\ Node(e).metadata["sensor"] \in {"true", "false"}

C6_BooleanEntryMakesSensor ==
    \A i \in DOMAIN calls :
        ReturnedCollider(calls[i])
        => LET collider == colliders[calls[i].data.value.handle]
               e == calls[i].entity
           IN  /\ HasBooleanSensorEntry(e)
                  => collider.sensor = TRUE /\ collider.active_events = "all"
               /\ "sensor" \notin DOMAIN Node(e).metadata
                  => collider.sensor = FALSE /\ collider.active_events = "empty"

(***************************************************************************)
(* C6, amended: the sensor flag of a collider built for an entity with a   *)
(* boolean "sensor" entry is the value of the entry (a sensor only when    *)
(* the entry is true) and the collider emits events for either value;      *)
(* without the key the collider is no sensor and has no active events.     *)
(***************************************************************************)
C6_SensorFlagIsEntryValue ==
    \A i \in DOMAIN calls :
        ReturnedCollider(calls[i])
        => LET collider == colliders[calls[i].data.value.handle]
               e == calls[i].entity
           IN  /\ HasBooleanSensorEntry(e)
                  => /\ collider.sensor = (Node(e).metadata["sensor"] = "true")
                     /\ collider.active_events = "all"
                     /\ collider.active_collision_types = "all"
               /\ "sensor" \notin DOMAIN Node(e).metadata
                  => /\ collider.sensor = FALSE
                     /\ collider.active_events = "empty"
                     /\ collider.active_collision_types = "default"

\* colliders of an entry "false", of an entry "true" and of no entry
C6_Witness ==
    \E i, j, k \in DOMAIN calls :
        /\ ReturnedCollider(calls[i]) /\ ReturnedCollider(calls[j])
        /\ ReturnedCollider(calls[k])
        /\ HasBooleanSensorEntry(calls[i].entity)
        /\ Node(calls[i].entity).metadata["sensor"] = "false"
        /\ ~colliders[calls[i].data.value.handle].sensor
        /\ HasBooleanSensorEntry(calls[j].entity)
        /\ colliders[calls[j].data.value.handle].sensor
        /\ "sensor" \notin DOMAIN Node(calls[k].entity).metadata

(***************************************************************************)
(* C7: a CollisionShape3D entity whose resource name is not in the table   *)
(* creates no collider and no results entry and does not abort the load:   *)
(* the bodies and colliders created before stay in the containers and the  *)
(* traversal goes on with the next entity of the document (the first child *)
(* of the entity, else its next sibling, else the rest of the tree), or    *)
(* returns when there is none.                                             *)
(***************************************************************************)
MissingShape(e) ==
    IsShapeEntity(e) /\ Node(e).data.shape \notin DOMAIN world.value.resources

C7_MissingResourceSkipsOnlyTheEntity ==
    /\ \A i \in DOMAIN calls :
          LET c == calls[i]
          IN  MissingShape(c.entity)
              => /\ c.outcome = "spawn" /\ c.data = None
                 /\ \A n \in DOMAIN entities :
                       n = Node(c.entity).name
                       => \E j \in DOMAIN calls :
                             /\ j # i /\ calls[j].outcome = "spawn"
                             /\ calls[j].data = Some(entities[n].data)
                             /\ Node(calls[j].entity).name = n
                 /\ IF i < Len(calls)
                    THEN /\ calls[i + 1].entity = c.entity + 1
                         /\ ParentOf(c.entity + 1) = c.entity
                            => /\ calls[i + 1].parent = c.entity
                               /\ calls[i + 1].parent_data = None
                    ELSE IF c.entity < Len(world.value.nodes)
                    THEN pc = "loading" /\ Head(Top.todo) = c.entity + 1
                    ELSE pc = "done"
    /\ Len(colliders) = Cardinality({i \in DOMAIN calls : ReturnedCollider(calls[i])})
    /\ Len(bodies) = Cardinality({i \in DOMAIN calls : ReturnedBody(calls[i])})
    /\ \A i \in DOMAIN calls :
          /\ ReturnedBody(calls[i])
             => /\ calls[i].data.value.handle \in DOMAIN bodies
                /\ bodies[calls[i].data.value.handle].position
                      = PoseOf(calls[i].absolute)
          /\ ReturnedCollider(calls[i])
             => calls[i].data.value.handle \in DOMAIN colliders

\* a load that returned after a body, then a shape with a missing resource,
\* then the child of that shape, which got a collider of its own
C7_Witness ==
    /\ pc = "done"
    /\ \E i \in DOMAIN calls :
          /\ i > 1 /\ i < Len(calls)
          /\ MissingShape(calls[i].entity)
          /\ ReturnedBody(calls[i - 1])
          /\ calls[i + 1].parent = calls[i].entity
          /\ ReturnedCollider(calls[i + 1])
          /\ Len(bodies) = 1 /\ Len(colliders) = 1
          /\ Node(calls[i].entity).name \notin DOMAIN entities

(***************************************************************************)
(* C8: a CollisionShape3D entity whose resource is in the table but is no  *)
(* box, sphere or concave polygon collision shape fails alone: no collider *)
(* is created for it and the load does not abort.                          *)
(***************************************************************************)
WrongShape(e) ==
    /\ IsShapeEntity(e)
    /\ Node(e).data.shape \in DOMAIN world.value.resources
    /\ ~ShapeResolves(e)

C8_WrongResourceIsSkipped ==
    \A i \in DOMAIN calls :
        WrongShape(calls[i].entity) => calls[i].outcome # "panic" /\ pc # "panic"

(***************************************************************************)
(* C9: a document with an entity, at any depth, or a resource whose type   *)
(* string is not a recognised one yields no SceneWorld, and no body,       *)
(* collider or results entry is ever created; the empty entity type is a   *)
(* recognised one and parses as a ModelScene entity.                       *)
(***************************************************************************)
RecognisedEntityTypes ==
    {"StaticBody3D", "MeshInstance3D", "CollisionShape3D", "Camera3D", "RigidBody3D",
     "Node3D", "CharacterBody3D", ""}

RecognisedResourceTypes ==
    {"BoxMesh", "SphereMesh", "StandardMaterial3D", "ConcavePolygonShape3D",
     "BoxShape3D", "SphereShape3D", "ArrayMesh", "Texture2D", "PackedScene"}

UnknownTypeInDocument ==
    \/ \E i \in DOMAIN json.entities :
          json.entities[i].entity_type \notin RecognisedEntityTypes
    \/ \E k \in DOMAIN json.resources :
          json.resources[k].resource_type \notin RecognisedResourceTypes

C9_UnknownTypeFailsTheLoad ==
    /\ UnknownTypeInDocument
       => /\ pc \in {"start", "panic"}
          /\ world = None
          /\ bodies = << >> /\ colliders = << >> /\ entities = << >> /\ calls = << >>
    /\ (~UnknownTypeInDocument /\ pc # "start")
       => /\ world.tag = "Some"
          /\ \A i \in DOMAIN json.entities :
                json.entities[i].entity_type = ""
                => Node(i).data.variant = "ModelScene"

\* the refusal of a document whose only unknown type is two levels down, and
\* of one whose only unknown type is the type of a resource
C9_Witness ==
    /\ pc = "panic" /\ world = None
    /\ \A i \in DOMAIN json.entities : Len(json.entities[i].data.transform) = 16
    /\ \/ /\ \A k \in DOMAIN json.resources :
                json.resources[k].resource_type \in RecognisedResourceTypes
          /\ \A i \in DOMAIN json.entities :
                json.entities[i].entity_type \notin RecognisedEntityTypes
                <=> i = Len(json.entities)
          /\ json.entities[Len(json.entities)].parent # 0
          /\ json.entities[json.entities[Len(json.entities)].parent].parent # 0
          /\ \E i \in DOMAIN json.entities : json.entities[i].entity_type = ""
       \/ /\ \A i \in DOMAIN json.entities :
                json.entities[i].entity_type \in RecognisedEntityTypes
          /\ \E k \in DOMAIN json.resources :
                json.resources[k].resource_type \notin RecognisedResourceTypes

(***************************************************************************)
(* C10: a document with a transform array that does not have exactly 16    *)
(* elements is rejected when the SceneWorld is built: no SceneWorld, no    *)
(* instantiation, no body and no collider.                                 *)
(***************************************************************************)
WrongLengthInDocument ==
    \E i \in DOMAIN json.entities : Len(json.entities[i].data.transform) # 16

C10_WrongLengthRejectedAtParse ==
    WrongLengthInDocument
    => /\ pc \in {"start", "panic"}
       /\ world = None
       /\ bodies = << >> /\ colliders = << >>

(***************************************************************************)
(* C11: the value a call of spawn_entity returns (a PhysicsBody, a         *)
(* Collider or none) is the parent context of the call of each of its      *)
(* children, and it is written to the results mapping under the name of    *)
(* the entity if and only if it is not none: the mapping changes only in a *)
(* call that returns a body or a collider, every such call leaves its      *)
(* value under its name until a later call of that name replaces it, and   *)
(* every entry is the value some call of that name returned.               *)
(***************************************************************************)
Produced(c) == c.outcome = "spawn" /\ c.data.tag = "Some"

NameOf(c) == Node(c.entity).name

\* the last call so far, of the name, that returned a body or a collider
LastProducer(n) ==
    CHOOSE i \in DOMAIN calls :
        /\ Produced(calls[i]) /\ NameOf(calls[i]) = n
        /\ \A j \in DOMAIN calls :
              (Produced(calls[j]) /\ NameOf(calls[j]) = n) => j <= i

C11_ReturnIsParentContextAndEntry ==
    /\ [](/\ \A i \in DOMAIN calls :
                LET c == calls[i]
                IN  /\ c.parent # 0
                       => /\ c.parent \in Visited
                          /\ CallOf(c.parent).outcome = "spawn"
                          /\ c.parent_data = CallOf(c.parent).data
                    /\ Produced(c)
                       => /\ NameOf(c) \in DOMAIN entities
                          /\ entities[NameOf(c)].data
                                = calls[LastProducer(NameOf(c))].data.value
          /\ \A n \in DOMAIN entities :
                \E i \in DOMAIN calls : Produced(calls[i]) /\ NameOf(calls[i]) = n)
    /\ [][(calls' # calls /\ calls' # << >>)
          => LET c == calls'[Len(calls')]
             IN  IF c.outcome = "spawn" /\ c.data.tag = "Some"
                 THEN /\ world.value.nodes[c.entity].name \in DOMAIN entities'
                      /\ entities'[world.value.nodes[c.entity].name].data = c.data.value
                      /\ \A n \in DOMAIN entities :
                            n # world.value.nodes[c.entity].name
                            => n \in DOMAIN entities' /\ entities'[n] = entities[n]
                 ELSE entities' = entities]_vars

\* a child called with the collider its parent returned, after a call that
\* returned none and left the mapping without an entry of its name
C11_Witness ==
    \E i, j \in DOMAIN calls :
        /\ ReturnedCollider(calls[i])
        /\ calls[j].parent = calls[i].entity
        /\ calls[j].parent_data = calls[i].data
        /\ \E k \in DOMAIN calls :
              /\ calls[k].outcome = "spawn" /\ calls[k].data = None
              /\ NameOf(calls[k]) \notin DOMAIN entities
        /\ NameOf(calls[i]) \in DOMAIN entities

(***************************************************************************)
(* C12: entities that produce a body or a collider and share a name raise  *)
(* no error; each of them has its own body or collider in the containers,  *)
(* and the results mapping holds one entry for the name, that of the       *)
(* entity visited last in depth-first pre-order.                           *)
(***************************************************************************)
C12_LastOfANameWins ==
    /\ pc # "panic"
    /\ \A i, j \in DOMAIN calls :
          (i < j /\ Produced(calls[i]) /\ Produced(calls[j])
             /\ NameOf(calls[i]) = NameOf(calls[j]))
          => /\ calls[i].data # calls[j].data
             /\ ReturnedBody(calls[i]) => calls[i].data.value.handle \in DOMAIN bodies
             /\ ReturnedCollider(calls[i])
                => calls[i].data.value.handle \in DOMAIN colliders
             /\ ReturnedBody(calls[j]) => calls[j].data.value.handle \in DOMAIN bodies
             /\ ReturnedCollider(calls[j])
                => calls[j].data.value.handle \in DOMAIN colliders
    /\ \A i \in DOMAIN calls :
          (Produced(calls[i])
             /\ \A j \in DOMAIN calls :
                   (Produced(calls[j]) /\ NameOf(calls[j]) = NameOf(calls[i])) => j <= i)
          => /\ NameOf(calls[i]) \in DOMAIN entities
             /\ entities[NameOf(calls[i])].data = calls[i].data.value
             /\ entities[NameOf(calls[i])].entity_type = Node(calls[i].entity).entity_type
             /\ entities[NameOf(calls[i])].transform = from_matrix(calls[i].absolute)
             /\ calls[i].entity >= calls[LastProducer(NameOf(calls[i]))].entity

\* a returned load in which a body "wall" and then a collider "wall" were
\* made: both are in the containers and the entry is the collider's
C12_Witness ==
    /\ pc = "done"
    /\ \E i, j \in DOMAIN calls :
          /\ i < j
          /\ ReturnedBody(calls[i]) /\ ReturnedCollider(calls[j])
          /\ NameOf(calls[i]) = NameOf(calls[j])
          /\ entities[NameOf(calls[i])].data = calls[j].data.value
          /\ Len(bodies) >= 1 /\ Len(colliders) >= 1
          /\ Cardinality(DOMAIN entities) < Len(bodies) + Len(colliders)

(***************************************************************************)
(* C13: in load_scene_to_bevy a MeshInstance3D entity whose mesh name or   *)
(* material name is not in the resource table, or names a resource of the  *)
(* wrong variant, fails alone: the entity is skipped and the load does not *)
(* abort.                                                                  *)
(***************************************************************************)
MeshVariants == {"BoxMesh", "SphereMesh", "ArrayMesh"}

\* the mesh of a MeshInstance3D entity, or the material of its mesh, is
\* missing or of the wrong variant
UnresolvedMesh(e) ==
    /\ Node(e).entity_type = "MeshInstance3D"
    /\ LET resources == world.value.resources
           mesh == Node(e).data.mesh
       IN  \/ mesh \notin DOMAIN resources
           \/ resources[mesh].data.variant \notin MeshVariants
           \/ /\ resources[mesh].data.variant \in {"BoxMesh", "SphereMesh"}
              /\ resources[mesh].data.material.tag = "Some"
              /\ LET mat == resources[mesh].data.material.value
                 IN  \/ mat \notin DOMAIN resources
                     \/ resources[mat].data.variant # "StandardMaterial"

C13_UnresolvedMeshSkipsOnlyTheEntity ==
    \A i \in DOMAIN calls :
        UnresolvedMesh(calls[i].entity)
        => calls[i].outcome = "skip" /\ pc # "panic"

(***************************************************************************)
(* C14: strip_res_prefix strips the prefix "res://" and nothing else: of a *)
(* path "res://" followed by s the result is s, of a path that does not    *)
(* start with "res://" the result is the path; the argument is unchanged.  *)
(***************************************************************************)
HasResPrefix(path) ==
    Len(path) >= Len(ResPrefix) /\ SubSeq(path, 1, Len(ResPrefix)) = ResPrefix

C14_StripsThePrefixOnly ==
    /\ arg.tag = "Some" /\ arg.value \in Paths
    /\ ret.tag = "Some"
       => ret.value = IF HasResPrefix(arg.value)
                      THEN SubSeq(arg.value, Len(ResPrefix) + 1, Len(arg.value))
                      ELSE arg.value

(***************************************************************************)
(* C17: for a concave polygon resource with data of any length n the       *)
(* construction of the collider completes: it yields at most ceil(n/3)     *)
(* points, point k being (data[3k], data[3k+1], data[3k+2]), and exactly   *)
(* n/3 points when n is a multiple of 3.                                   *)
(***************************************************************************)
C17_PolygonOfAnyLength ==
    pc # "start"
    => /\ ret.tag = "Some"
       /\ LET n == Len(arg.value)
              vertices == ret.value.shape.vertices
          IN  /\ 3 * Len(vertices) < n + 3
              /\ n % 3 = 0 => 3 * Len(vertices) = n
              /\ \A k \in DOMAIN vertices :
                    vertices[k] = <<arg.value[3 * k - 2], arg.value[3 * k - 1],
                                    arg.value[3 * k]>>

(***************************************************************************)
(* C15: when get_entity_transform yields no transform for an entity (a     *)
(* MeshInstance3D or a Camera), spawn_entity returns none for it: no body, *)
(* collider or results entry is created for it or for any descendant, none *)
(* of its descendants is visited, and the traversal goes on with the       *)
(* entity's next sibling, else with the rest of the tree, or returns.      *)
(***************************************************************************)
ParentsOf == [e \in DOMAIN world.value.nodes |-> ParentOf(e)]

Descendants(e) ==
    { d \in DOMAIN world.value.nodes : d # e /\ e \in AncestorsOrSelf(ParentsOf, d) }

\* the entities after an entity in document order that are not below it
AfterSubtree(e) ==
    { d \in DOMAIN world.value.nodes : d > e /\ d \notin Descendants(e) }

Least(S) == CHOOSE x \in S : \A y \in S : x <= y

C15_NoTransformSkipsTheSubtree ==
    /\ \A i \in DOMAIN calls :
          LET c == calls[i]
              e == c.entity
          IN  /\ c.outcome = "skip"
                 <=> Node(e).data.variant \in {"MeshInstance3D", "Camera"}
              /\ c.outcome = "skip"
                 => /\ c.data = None
                    /\ \A d \in Descendants(e) : d \notin Visited
                    /\ IF i < Len(calls)
                       THEN /\ AfterSubtree(e) # {}
                            /\ calls[i + 1].entity = Least(AfterSubtree(e))
                            /\ calls[i + 1].parent = ParentOf(Least(AfterSubtree(e)))
                       ELSE IF AfterSubtree(e) # {}
                       THEN pc = "loading" /\ Head(Top.todo) = Least(AfterSubtree(e))
                       ELSE pc = "done"
    /\ Len(bodies) = Cardinality({i \in DOMAIN calls : ReturnedBody(calls[i])})
    /\ Len(colliders) = Cardinality({i \in DOMAIN calls : ReturnedCollider(calls[i])})
    /\ \A n \in DOMAIN entities :
          \E i \in DOMAIN calls : Produced(calls[i]) /\ NameOf(calls[i]) = n

\* a returned load in which a MeshInstance3D with a body entity below it
\* was skipped and its next sibling then got a body: the only body
C15_Witness ==
    /\ pc = "done"
    /\ \E i \in DOMAIN calls :
          /\ i < Len(calls)
          /\ calls[i].outcome = "skip"
          /\ \E d \in Descendants(calls[i].entity) : IsBodyEntity(d)
          /\ calls[i + 1].parent = calls[i].parent
          /\ ReturnedBody(calls[i + 1])
          /\ Len(bodies) = 1

(***************************************************************************)
(* C16: load_world_to_rapier visits the entities in depth-first pre-order, *)
(* top-level entities and children in document order: the k-th call of     *)
(* spawn_entity is for the k-th entity of the document (a parent before    *)
(* its children, a whole subtree before the next sibling), and the call of *)
(* an entity inserts its body or collider and writes its results entry     *)
(* before any of its descendants is visited.                               *)
(***************************************************************************)
C16_DepthFirstPreOrder ==
    /\ [](\A i \in DOMAIN calls :
             /\ calls[i].entity = i
             /\ calls[i].parent = ParentOf(i)
             /\ \A d \in Descendants(i) : d \in Visited => CallOf(d) \in
                   {calls[j] : j \in (i + 1)..Len(calls)})
    /\ [][(calls' # calls /\ calls' # << >>)
          => LET c == calls'[Len(calls')]
                 name == world.value.nodes[c.entity].name
             IN  /\ Len(calls') = Len(calls) + 1
                 /\ \A j \in DOMAIN calls :
                       calls[j].entity \notin Descendants(c.entity)
                 /\ ReturnedBody(c)
                    => /\ bodies' # bodies /\ Len(bodies') = c.data.value.handle
                       /\ name \in DOMAIN entities'
                       /\ entities'[name].data = c.data.value
                 /\ ReturnedCollider(c)
                    => /\ colliders' # colliders
                       /\ Len(colliders') = c.data.value.handle
                       /\ name \in DOMAIN entities'
                       /\ entities'[name].data = c.data.value]_vars

\* a returned load of a tree with an entity that has both a child and a
\* later sibling, all three producing: child before sibling
C16_Witness ==
    /\ pc = "done"
    /\ \E i, j, k \in DOMAIN calls :
          /\ i < j /\ j < k
          /\ calls[j].parent = calls[i].entity
          /\ calls[k].parent = calls[i].parent
          /\ Produced(calls[i]) /\ Produced(calls[j]) /\ Produced(calls[k])

(***************************************************************************)
(* C18: at every point of a load_world_to_rapier run and at its end the    *)
(* body set holds one body per visited body entity, the collider set holds *)
(* one collider per visited CollisionShape3D entity whose resource         *)
(* resolved, the owning body of a collider that has one is in the body set *)
(* and is the body of the immediate parent of the shape, and the results   *)
(* mapping has at most as many entries as there are bodies and colliders,  *)
(* and as many when the producing entities have distinct names.            *)
(***************************************************************************)
C18_ContainersMatchTheVisit ==
    /\ Len(bodies) = Cardinality({i \in DOMAIN calls : IsBodyEntity(calls[i].entity)})
    /\ \A i, j \in DOMAIN calls :
          (ReturnedBody(calls[i]) /\ ReturnedBody(calls[j]) /\ i # j)
          => calls[i].data.value.handle # calls[j].data.value.handle
    /\ Len(colliders) =
          Cardinality({i \in DOMAIN calls :
                          IsShapeEntity(calls[i].entity) /\ ShapeResolves(calls[i].entity)})
    /\ \A i, j \in DOMAIN calls :
          (ReturnedCollider(calls[i]) /\ ReturnedCollider(calls[j]) /\ i # j)
          => calls[i].data.value.handle # calls[j].data.value.handle
    /\ \A k \in DOMAIN colliders :
          colliders[k].parent.tag = "Some"
          => /\ colliders[k].parent.value \in DOMAIN bodies
             /\ \E i \in DOMAIN calls :
                   /\ ReturnedCollider(calls[i]) /\ calls[i].data.value.handle = k
                   /\ calls[i].parent # 0
                   /\ ReturnedBody(CallOf(calls[i].parent))
                   /\ CallOf(calls[i].parent).data.value.handle = colliders[k].parent.value
    /\ Cardinality(DOMAIN entities) <= Len(bodies) + Len(colliders)
    /\ (\A i, j \in DOMAIN calls :
           (Produced(calls[i]) /\ Produced(calls[j]) /\ i # j)
           => NameOf(calls[i]) # NameOf(calls[j]))
       => Cardinality(DOMAIN entities) = Len(bodies) + Len(colliders)

\* two bodies and a collider owned by the second, under names that leave
\* fewer entries than objects
C18_Witness ==
    /\ Len(bodies) = 2 /\ Len(colliders) = 1
    /\ colliders[1].parent = Some(2)
    /\ Cardinality(DOMAIN entities) < 3

(***************************************************************************)
(* C19: every entry written to the results mapping stores the absolute     *)
(* transform of the entity, its entity_type string and its metadata; so    *)
(* also for a collider attached to a parent body, whose position is the    *)
(* relative transform: the stored transform and the position of the        *)
(* collider differ whenever the absolute transform of the parent is not    *)
(* the identity.                                                           *)
(***************************************************************************)
C19_EntryStoresAbsoluteTransform ==
    [][(calls' # calls /\ calls' # << >>)
       => LET c == calls'[Len(calls')]
              e == c.entity
          IN  (c.outcome = "spawn" /\ c.data.tag = "Some")
              => /\ Node(e).name \in DOMAIN entities'
                 /\ entities'[Node(e).name] =
                       [entity_type |-> json.entities[e].entity_type,
                        transform   |-> from_matrix(AbsOf(e)),
                        metadata    |-> json.entities[e].metadata,
                        data        |-> c.data.value]
                 /\ (c.data.value.tag = "Collider"
                       /\ colliders'[c.data.value.handle].parent.tag = "Some")
                    => /\ colliders'[c.data.value.handle].position = PoseOf(RelativeOf(e))
                       /\ AbsOf(c.parent) # Identity
                          => Isometry3(entities'[Node(e).name].transform)
                                # colliders'[c.data.value.handle].position]_vars

\* the entry of a sensor shape attached to the kinematic body "player": its
\* type string and metadata are the document's, its transform is not the
\* position of the collider
C19_Witness ==
    \E i \in DOMAIN calls :
        /\ ReturnedCollider(calls[i])
        /\ colliders[calls[i].data.value.handle].parent.tag = "Some"
        /\ Node(calls[i].parent).entity_type = "CharacterBody3D"
        /\ NameOf(calls[i]) \in DOMAIN entities
        /\ entities[NameOf(calls[i])].data = calls[i].data.value
        /\ entities[NameOf(calls[i])].metadata = ("sensor" :> "true")
        /\ entities[NameOf(calls[i])].entity_type = "CollisionShape3D"
        /\ entities["player"].entity_type = "CharacterBody3D"
        /\ Isometry3(entities[NameOf(calls[i])].transform)
              # colliders[calls[i].data.value.handle].position

====
